---- MODULE Spec2Model ----
(***************************************************************************)
(* A model of the sixbit crate (src/lib.rs): packing short strings into    *)
(* fixed-width unsigned integers with 6-bit (or, for the URO block,        *)
(* 15-bit) codes.  Packed values are modelled as sequences of N bits, most *)
(* significant bit first, so that the 32/64/128-bit widths are exact.      *)
(* Characters are modelled by their Unicode scalar values.                 *)
(***************************************************************************)
EXTENDS Integers, Sequences, FiniteSets, TLC

\* ------------------------------------------------------------------------
\* Code pages (lib.rs 169-400)
\* ------------------------------------------------------------------------

\* const LATIN : [char; 64]  (lib.rs 172-177), as code points
LATIN ==
    << 0, 48, 49, 50, 51, 52, 53, 54, 55, 56, 57, 65, 66, 67, 68, 69,
       70, 71, 72, 73, 74, 75, 76, 77, 78, 79, 80, 81, 82, 83, 84, 85,
       86, 87, 88, 89, 90, 95, 97, 98, 99, 100, 101, 102, 103, 104, 105, 106,
       107, 108, 109, 110, 111, 112, 113, 114, 115, 116, 117, 118, 119, 120, 121, 122 >>

\* const GREEK : [char; 64]  (lib.rs 181-195), as code points
GREEK ==
    << 0, 902, 904, 905, 906, 908, 910, 911, 913, 914, 915, 916, 917, 918, 919, 920,
       921, 922, 923, 924, 925, 926, 927, 928, 929, 931, 932, 933, 934, 935, 936, 937,
       940, 941, 942, 943, 945, 946, 947, 948, 949, 950, 951, 952, 953, 954, 955, 956,
       957, 958, 959, 960, 961, 962, 963, 964, 965, 966, 967, 968, 969, 972, 973, 974 >>

\* const CYRILLIC : [char; 64]  (lib.rs 198-203), as code points
CYRILLIC ==
    << 0, 1040, 1041, 1042, 1043, 1044, 1045, 1046, 1047, 1048, 1049, 1050, 1051, 1052, 1053, 1054,
       1055, 1056, 1057, 1058, 1059, 1060, 1061, 1062, 1063, 1064, 1065, 1066, 1067, 1068, 1069, 1070,
       1071, 1072, 1073, 1074, 1075, 1076, 1077, 1078, 1079, 1080, 1081, 1082, 1083, 1084, 1085, 1086,
       1087, 1088, 1089, 1090, 1091, 1092, 1093, 1094, 1095, 1096, 1097, 1099, 1100, 1101, 1102, 1103 >>

\* const HEBREW : [char; 64]  (lib.rs 206-214), as code points
HEBREW ==
    << 0, 1456, 1457, 1458, 1459, 1460, 1461, 1462, 1463, 1464, 1465, 1466, 1467, 1468, 1469, 1470,
       1471, 1472, 1473, 1474, 1475, 1476, 1477, 1478, 1479, 1488, 1489, 1490, 1491, 1492, 1493, 1494,
       1495, 1496, 1497, 1498, 1499, 1500, 1501, 1502, 1503, 1504, 1505, 1506, 1507, 1508, 1509, 1510,
       1511, 1512, 1513, 1514, 1520, 1521, 1522, 1523, 1524, 65535, 65535, 65535, 65535, 65535, 65535, 65535 >>

\* const ARABIC : [char; 64]  (lib.rs 219-290), as code points
ARABIC ==
    << 0, 1548, 1563, 1567, 1569, 1575, 1576, 1577, 1578, 1579, 1580, 1581, 1582, 1583, 1584, 1585,
       1586, 1587, 1588, 1589, 1590, 1591, 1592, 1593, 1594, 1601, 1602, 1604, 1605, 1606, 1607, 1608,
       1609, 1610, 1614, 1615, 1616, 1617, 1619, 1620, 1622, 1623, 1648, 1657, 1662, 1670, 1672, 1681,
       1688, 1705, 1711, 1722, 1726, 1746, 1748, 65535, 65535, 65535, 65535, 65535, 65535, 65535, 65535, 65535 >>

\* DEVANAGARI with U+0933 and U+0935 in each other's place.
DEVANAGARI_misordered ==
    << 0, 2305, 2306, 2307, 2309, 2310, 2311, 2312, 2313, 2314, 2315, 2319, 2320, 2323, 2324, 2325,
       2326, 2327, 2328, 2329, 2330, 2331, 2332, 2333, 2334, 2335, 2336, 2337, 2338, 2339, 2340, 2341,
       2342, 2343, 2344, 2346, 2347, 2348, 2349, 2350, 2351, 2352, 2354, 2357, 2355, 2358, 2359, 2360,
       2361, 2364, 2366, 2367, 2368, 2369, 2370, 2371, 2375, 2376, 2379, 2380, 2381, 2404, 2405, 65535 >>

\* const DEVANAGARI : [char; 64]  (lib.rs 295-333), as code points
DEVANAGARI ==
    << 0, 2305, 2306, 2307, 2309, 2310, 2311, 2312, 2313, 2314, 2315, 2319, 2320, 2323, 2324, 2325,
       2326, 2327, 2328, 2329, 2330, 2331, 2332, 2333, 2334, 2335, 2336, 2337, 2338, 2339, 2340, 2341,
       2342, 2343, 2344, 2346, 2347, 2348, 2349, 2350, 2351, 2352, 2354, 2355, 2357, 2358, 2359, 2360,
       2361, 2364, 2366, 2367, 2368, 2369, 2370, 2371, 2375, 2376, 2379, 2380, 2381, 2404, 2405, 65535 >>

\* const HANGUL_COMPATIBILITY_JAMO : [char; 64]  (lib.rs 336-345), as code points
HANGUL_COMPATIBILITY_JAMO ==
    << 0, 12593, 12594, 12595, 12596, 12597, 12598, 12599, 12600, 12601, 12602, 12603, 12604, 12605, 12606, 12607,
       12608, 12609, 12610, 12611, 12612, 12613, 12614, 12615, 12616, 12617, 12618, 12619, 12620, 12621, 12622, 12623,
       12624, 12625, 12626, 12627, 12628, 12629, 12630, 12631, 12632, 12633, 12634, 12635, 12636, 12637, 12638, 12639,
       12640, 12641, 12642, 12643, 65535, 65535, 65535, 65535, 65535, 65535, 65535, 65535, 65535, 65535, 65535, 65535 >>

\* const HALFWIDTH_KANA : [char; 64]  (lib.rs 348-353), as code points
HALFWIDTH_KANA ==
    << 0, 65377, 65378, 65379, 65380, 65381, 65382, 65383, 65384, 65385, 65386, 65387, 65388, 65389, 65390, 65391,
       65392, 65393, 65394, 65395, 65396, 65397, 65398, 65399, 65400, 65401, 65402, 65403, 65404, 65405, 65406, 65407,
       65408, 65409, 65410, 65411, 65412, 65413, 65414, 65415, 65416, 65417, 65418, 65419, 65420, 65421, 65422, 65423,
       65424, 65425, 65426, 65427, 65428, 65429, 65430, 65431, 65432, 65433, 65434, 65435, 65436, 65437, 65438, 65439 >>

\* const RESERVED : [char; 64]  (lib.rs 355-372), as code points
RESERVED ==
    << 65535, 65535, 65535, 65535, 65535, 65535, 65535, 65535, 65535, 65535, 65535, 65535, 65535, 65535, 65535, 65535,
       65535, 65535, 65535, 65535, 65535, 65535, 65535, 65535, 65535, 65535, 65535, 65535, 65535, 65535, 65535, 65535,
       65535, 65535, 65535, 65535, 65535, 65535, 65535, 65535, 65535, 65535, 65535, 65535, 65535, 65535, 65535, 65535,
       65535, 65535, 65535, 65535, 65535, 65535, 65535, 65535, 65535, 65535, 65535, 65535, 65535, 65535, 65535, 65535 >>
\* const CHINESE : [char; 64] = RESERVED  (lib.rs 374)
CHINESE == RESERVED

\* const CHINESE_LO: char = '\u{4e00}'  (lib.rs 375)
CHINESE_LO == 19968

\* const CHINESE_HI: char = '\u{9fff}'  (lib.rs 376)
CHINESE_HI == 40959

\* const CHINESE_2BIT_TAG: usize = 0b11  (lib.rs 377)
CHINESE_2BIT_TAG == 3

\* const CHINESE_4BIT_TAG: usize = 0b1100  (lib.rs 378)
CHINESE_4BIT_TAG == 12

\* const PAGES : [[char; 64]; 16]  (lib.rs 380-400); PAGES[p + 1] is the
\* page with tag p.
PAGES ==
    << LATIN, GREEK, CYRILLIC, HEBREW,
       ARABIC, RESERVED, RESERVED, RESERVED,
       DEVANAGARI, RESERVED, RESERVED, HANGUL_COMPATIBILITY_JAMO,
       CHINESE, RESERVED, RESERVED, HALFWIDTH_KANA >>

\* PAGES[p][i] with the 0-based indices of the source.
PageAt(p, i) == PAGES[p + 1][i + 1]

\* ------------------------------------------------------------------------
\* PackedValue (lib.rs 402-448)
\* ------------------------------------------------------------------------

\* The types that implement PackedValue: u8, u16, u32, u64, u128, each named
\* by its size_of in bytes times 8 (lib.rs 425-448).
Widths == {8, 16, 32, 64, 128}

\* const NBITS: usize = size_of::<Self>() * 8  (lib.rs 411)
NBITS(N) == N

\* const NCHARS: usize = Self::NBITS / 6  (lib.rs 412)
NCHARS(N) == NBITS(N) \div 6

\* const NTAGBITS: usize = Self::NBITS - (Self::NCHARS * 6)  (lib.rs 413)
NTAGBITS(N) == NBITS(N) - (NCHARS(N) * 6)

\* const NCHARBITS: usize = Self::NBITS - Self::NTAGBITS  (lib.rs 414)
NCHARBITS(N) == NBITS(N) - NTAGBITS(N)

\* Bit e (bit 0 the least significant) of the usize i.
RECURSIVE BitOf(_, _)
BitOf(i, e) ==
    IF i = 0 THEN 0 ELSE IF e = 0 THEN i % 2 ELSE BitOf(i \div 2, e - 1)

\* The value 0 of an N-bit type: N zero bits, most significant first.
Zero(N) == [j \in 1..N |-> 0]

\* fn truncating_cast_from(i: usize) -> Self { i as uN }  (lib.rs 419,
\* 426-446): the low N bits of i.
truncating_cast_from(i, N) == [j \in 1..N |-> BitOf(i, N - j)]

\* fn most_significant_byte(self) -> u8  (lib.rs 422, 427-447): the top
\* 8 bits as a number.
most_significant_byte(x) ==
    x[1] * 128 + x[2] * 64 + x[3] * 32 + x[4] * 16 + x[5] * 8 + x[6] * 4 + x[7] * 2 + x[8]

\* x << k on an N-bit unsigned integer, for k < N (Self: ShlAssign<usize>,
\* lib.rs 405).
Shl(x, k, N) == [j \in 1..N |-> IF j + k <= N THEN x[j + k] ELSE 0]

\* x | y on N-bit unsigned integers (Self: BitOrAssign<Self>, lib.rs 406).
BitOr(x, y, N) == [j \in 1..N |-> IF x[j] = 1 \/ y[j] = 1 THEN 1 ELSE 0]

\* x < y on N-bit unsigned integers (Self: PartialOrd, lib.rs 407).
Less(x, y) ==
    \E j \in 1..Len(x) : x[j] < y[j] /\ \A h \in 1..(j - 1) : x[h] = y[h]

\* ------------------------------------------------------------------------
\* EncodeError and Result (lib.rs 450-456)
\* ------------------------------------------------------------------------

\* Option::None for an Option<usize>.
None == -1

Ok(val) == [kind |-> "Ok", val |-> val, arg |-> 0]

\* EncodeError::TooLong  (lib.rs 452)
TooLong == [kind |-> "TooLong", val |-> <<>>, arg |-> 0]

\* EncodeError::NoCodePageFor(char)  (lib.rs 453)
NoCodePageFor(c) == [kind |-> "NoCodePageFor", val |-> <<>>, arg |-> c]

\* EncodeError::PageUnavailable(usize)  (lib.rs 454)
PageUnavailable(t) == [kind |-> "PageUnavailable", val |-> <<>>, arg |-> t]

\* EncodeError::MissingFromPage(char)  (lib.rs 455)
MissingFromPage(c) == [kind |-> "MissingFromPage", val |-> <<>>, arg |-> c]

\* ------------------------------------------------------------------------
\* encode (lib.rs 458-545)
\* ------------------------------------------------------------------------

\* fn chinese_15bit_delta(c: char) -> Option<usize>  (lib.rs 458-464)
chinese_15bit_delta(c) ==
    IF CHINESE_LO <= c /\ c <= CHINESE_HI THEN c - CHINESE_LO ELSE None

\* The outcomes of <[char; 64]>::binary_search when several entries equal
\* the target (the U+FFFF filler): the standard library returns any one of
\* the matches, the same one for the same slice and target in one build.
BsPicks == {"first", "last"}

\* The bisection of binary_search over the 0-based range lo..hi-1 of a
\* sorted page: the index of some entry equal to c, or None.
RECURSIVE bisect(_, _, _, _)
bisect(page, c, lo, hi) ==
    IF lo >= hi THEN None
    ELSE LET mid == lo + ((hi - lo) \div 2)
         IN  IF page[mid + 1] = c THEN mid
             ELSE IF page[mid + 1] < c THEN bisect(page, c, mid + 1, hi)
             ELSE bisect(page, c, lo, mid)

\* The first and the last index of the run of entries equal to page[i].
RECURSIVE run_first(_, _)
run_first(page, i) ==
    IF i > 0 /\ page[i] = page[i + 1] THEN run_first(page, i - 1) ELSE i

RECURSIVE run_last(_, _)
run_last(page, i) ==
    IF i < 63 /\ page[i + 2] = page[i + 1] THEN run_last(page, i + 1) ELSE i

\* p.binary_search(&c)  (lib.rs 504, 527) on a page: the 0-based index of an
\* entry equal to c, or None for Err(_).
binary_search(page, c, pick) ==
    LET m == bisect(page, c, 0, 64)
    IN  IF m = None THEN None
        ELSE IF pick = "first" THEN run_first(page, m) ELSE run_last(page, m)

\* PAGES.iter().position(|&p| p.binary_search(&init).is_ok())  (lib.rs 504):
\* the first page from p on that holds init, or None.
RECURSIVE page_position(_, _, _)
page_position(init, pick, p) ==
    IF p > 15 THEN None
    ELSE IF binary_search(PAGES[p + 1], init, pick) # None THEN p
    ELSE page_position(init, pick, p + 1)

\* The loop of the Chinese branch (lib.rs 483-500), from the k-th character
\* of s on.
RECURSIVE chinese_loop(_, _, _, _, _)
chinese_loop(s, k, out, rembits, N) ==
    IF k > Len(s) THEN Ok(Shl(out, rembits, N))
    ELSE IF rembits < 15 THEN TooLong
    ELSE LET delta == chinese_15bit_delta(s[k])
         IN  IF delta = None THEN MissingFromPage(s[k])
             ELSE chinese_loop(s, k + 1,
                      BitOr(Shl(out, 15, N), truncating_cast_from(delta + 1, N), N),
                      rembits - 15, N)

\* page_loop with the capacity test off by one: the last slot is never used.
RECURSIVE page_loop_short(_, _, _, _, _, _, _)
page_loop_short(s, k, out, rem, p, N, pick) ==
    IF k > Len(s) THEN Ok(Shl(out, 6 * rem, N))
    ELSE IF rem <= 1 THEN TooLong
    ELSE LET i == binary_search(PAGES[p + 1], s[k], pick)
         IN  IF i = None THEN MissingFromPage(s[k])
             ELSE page_loop_short(s, k + 1,
                      BitOr(Shl(out, 6, N), truncating_cast_from(i, N), N),
                      rem - 1, p, N, pick)

\* page_loop without the final padding shift: the codes are right-justified.
RECURSIVE page_loop_unpadded(_, _, _, _, _, _, _)
page_loop_unpadded(s, k, out, rem, p, N, pick) ==
    IF k > Len(s) THEN Ok(out)
    ELSE IF rem = 0 THEN TooLong
    ELSE LET i == binary_search(PAGES[p + 1], s[k], pick)
         IN  IF i = None THEN MissingFromPage(s[k])
             ELSE page_loop_unpadded(s, k + 1,
                      BitOr(Shl(out, 6, N), truncating_cast_from(i, N), N),
                      rem - 1, p, N, pick)

\* page_loop looking the character up before testing the capacity.
RECURSIVE page_loop_lookup_first(_, _, _, _, _, _, _)
page_loop_lookup_first(s, k, out, rem, p, N, pick) ==
    IF k > Len(s) THEN Ok(Shl(out, 6 * rem, N))
    ELSE LET i == binary_search(PAGES[p + 1], s[k], pick)
         IN  IF i = None THEN MissingFromPage(s[k])
             ELSE IF rem = 0 THEN TooLong
             ELSE page_loop_lookup_first(s, k + 1,
                      BitOr(Shl(out, 6, N), truncating_cast_from(i, N), N),
                      rem - 1, p, N, pick)

\* The loop of the page branch (lib.rs 522-540), from the k-th character
\* of s on.
RECURSIVE page_loop(_, _, _, _, _, _, _)
page_loop(s, k, out, rem, p, N, pick) ==
    IF k > Len(s) THEN Ok(Shl(out, 6 * rem, N))
    ELSE IF rem = 0 THEN TooLong
    ELSE LET i == binary_search(PAGES[p + 1], s[k], pick)
         IN  IF i = None THEN MissingFromPage(s[k])
             ELSE page_loop(s, k + 1,
                      BitOr(Shl(out, 6, N), truncating_cast_from(i, N), N),
                      rem - 1, p, N, pick)

\* stored_tag without the shift to 2 tag bits.
stored_tag_unshifted(p, N) == p

\* The tag stored for page p (lib.rs 508-518): p itself with 4 tag bits,
\* p >> 2 with 2 tag bits.
stored_tag(p, N) == IF NTAGBITS(N) = 2 THEN p \div 4 ELSE p

\* encode_page testing the length of the string before the page of its first
\* character.
encode_page_length_first(s, N, pick) ==
    LET init == s[1]
        p == page_position(init, pick, 0)
    IN  IF Len(s) > NCHARS(N) THEN TooLong
        ELSE IF p = None THEN NoCodePageFor(init)
        ELSE IF NTAGBITS(N) = 2 /\ p % 4 # 0 THEN PageUnavailable(p)
        ELSE page_loop(s, 1,
                 BitOr(Zero(N), truncating_cast_from(stored_tag(p, N), N), N),
                 NCHARS(N), p, N, pick)

\* encode_page without the test of the low 2 bits of the tag at 2 tag bits.
encode_page_any_tag(s, N, pick) ==
    LET init == s[1]
        p == page_position(init, pick, 0)
    IN  IF p = None THEN NoCodePageFor(init)
        ELSE page_loop(s, 1,
                 BitOr(Zero(N), truncating_cast_from(stored_tag(p, N), N), N),
                 NCHARS(N), p, N, pick)

\* The page branch of encode (lib.rs 504-541).
encode_page(s, N, pick) ==
    LET init == s[1]
        p == page_position(init, pick, 0)
    IN  IF p = None THEN NoCodePageFor(init)
        ELSE IF NTAGBITS(N) = 2 /\ p % 4 # 0 THEN PageUnavailable(p)
        ELSE page_loop(s, 1,
                 BitOr(Zero(N), truncating_cast_from(stored_tag(p, N), N), N),
                 NCHARS(N), p, N, pick)

\* The Chinese branch of encode (lib.rs 479-501).
encode_chinese(s, N) ==
    LET tag == IF NTAGBITS(N) = 2 THEN CHINESE_2BIT_TAG ELSE CHINESE_4BIT_TAG
    IN  chinese_loop(s, 1,
            BitOr(Zero(N), truncating_cast_from(tag, N), N),
            NCHARBITS(N), N)

\* pub fn encode<N, IT>(i: IT) -> Result<N, EncodeError>  (lib.rs 466-545)
encode(s, N, pick) ==
    IF s = <<>> THEN Ok(truncating_cast_from(0, N))
    ELSE IF NCHARBITS(N) > 0 /\ chinese_15bit_delta(s[1]) # None
         THEN encode_chinese(s, N)
         ELSE encode_page(s, N, pick)

\* ------------------------------------------------------------------------
\* DecodeSixbitIter (lib.rs 562-621)
\* ------------------------------------------------------------------------

\* a | b on small unsigned integers.
RECURSIVE OrNat(_, _)
OrNat(a, b) ==
    IF a = 0 THEN b ELSE IF b = 0 THEN a
    ELSE (IF a % 2 = 1 \/ b % 2 = 1 THEN 1 ELSE 0) + 2 * OrNat(a \div 2, b \div 2)

\* 2^e for e <= 8, for shifts of a u8.
RECURSIVE Pow2(_)
Pow2(e) == IF e = 0 THEN 1 ELSE 2 * Pow2(e - 1)

\* char::from_u32 (lib.rs 582): Some(x) for a Unicode scalar value, None
\* for a surrogate or a value above U+10FFFF.
char_from_u32(x) ==
    IF x >= 0 /\ x <= 1114111 /\ ~(x >= 55296 /\ x <= 57343) THEN x ELSE None

\* fn decode_sixbit(self) -> DecodeSixbitIter<Self>  (lib.rs 608-620): the
\* fields tag and tmp of the iterator built on v.
decode_sixbit(v, N) ==
    LET tag0 == most_significant_byte(v) \div Pow2(8 - NTAGBITS(N))
        tag1 == IF NTAGBITS(N) = 2 THEN (tag0 * 4) % 256 ELSE tag0
    IN  [tag |-> tag1, tmp |-> Shl(v, NTAGBITS(N), N)]

\* The Chinese branch of next (lib.rs 574-584).  tmp <<= 8 overflows the
\* shift of a u8: a build with overflow checks panics there, a build without
\* them shifts by 8 mod 8.
next_chinese(tmp, N, overflow_checks) ==
    LET ch0 == most_significant_byte(tmp)
    IN  IF ch0 = 0 THEN [ret |-> "None", ch |-> None, tmp |-> tmp]
        ELSE IF 8 >= NBITS(N) /\ overflow_checks
             THEN [ret |-> "panic", ch |-> None, tmp |-> tmp]
        ELSE LET tmp1 == Shl(tmp, 8 % NBITS(N), N)
                 ch1 == most_significant_byte(tmp1)
                 tmp2 == Shl(tmp1, 7, N)
                 delta == OrNat(ch0 * 128, ch1 \div 2)
                 c == char_from_u32(CHINESE_LO + delta - 1)
             IN  [ret |-> IF c = None THEN "None" ELSE "Some", ch |-> c, tmp |-> tmp2]

\* next_page without the test for the terminator code 0.
next_page_no_terminator(tag, tmp, N) ==
    LET ch == most_significant_byte(tmp) \div 4
    IN  IF tag \notin 0..15 \/ ch \notin 0..63
        THEN [ret |-> "panic", ch |-> None, tmp |-> Shl(tmp, 6, N)]
        ELSE [ret |-> "Some", ch |-> PageAt(tag, ch), tmp |-> Shl(tmp, 6, N)]

\* next_page shifting tmp before it tests the code for the terminator.
next_page_shift_first(tag, tmp, N) ==
    LET ch == most_significant_byte(tmp) \div 4
    IN  IF ch = 0 THEN [ret |-> "None", ch |-> None, tmp |-> Shl(tmp, 6, N)]
        ELSE IF tag \notin 0..15 \/ ch \notin 0..63
             THEN [ret |-> "panic", ch |-> None, tmp |-> Shl(tmp, 6, N)]
        ELSE [ret |-> "Some", ch |-> PageAt(tag, ch), tmp |-> Shl(tmp, 6, N)]

\* The page branch of next (lib.rs 586-594).  An index outside the table
\* panics.
next_page(tag, tmp, N) ==
    LET ch == most_significant_byte(tmp) \div 4
    IN  IF ch = 0 THEN [ret |-> "None", ch |-> None, tmp |-> tmp]
        ELSE IF tag \notin 0..15 \/ ch \notin 0..63
             THEN [ret |-> "panic", ch |-> None, tmp |-> Shl(tmp, 6, N)]
        ELSE [ret |-> "Some", ch |-> PageAt(tag, ch), tmp |-> Shl(tmp, 6, N)]

\* fn next(self: &mut Self) -> Option<char>  (lib.rs 572-596): what the call
\* returns and the value it leaves in self.tmp.
next(tag, tmp, N, overflow_checks) ==
    IF tag = CHINESE_4BIT_TAG
    THEN next_chinese(tmp, N, overflow_checks)
    ELSE next_page(tag, tmp, N)

\* ------------------------------------------------------------------------
\* Inputs
\* ------------------------------------------------------------------------

\* The longest input string drawn character by character.
MaxLen == 3

\* How many characters beyond NCHARS(N) a run of one character may have.
MaxExtra == 1

\* The longest string of a pair handed to check_order.
MaxPairLen == 2

\* How many times next() is called again after it has returned None.
MaxNones == 2

\* Characters of the inputs: NUL, '0', the copyright sign (on no page),
\* Greek alpha, Arabic alef, U+4E00, U+4E7F, U+9FFF and U+FFFF.
Chars == {0, 48, 169, 945, 1575, 19968, 20095, 40959, 65535}

\* Characters of the runs: NUL, '0', 'z', the copyright sign, alpha, Cyrillic
\* A, Hebrew alef, Arabic alef, Devanagari ka, Hangul kiyeok, U+4EC8, U+9FFF,
\* halfwidth small tsu, U+FFFF.
RunChars ==
    {0, 48, 122, 169, 945, 1040, 1488, 1575, 2325, 12593, 20168, 40959, 65391,
     65535}

\* What may follow a run: nothing, '0', '@' (on no page), alpha, U+4EC8.
Tails == {<<>>, <<48>>, <<64>>, <<945>>, <<20168>>}

\* Characters of the pairs: NUL, 'z', Arabic alef, U+4E00, U+FFFF.
PairChars == {0, 122, 1575, 19968, 65535}

StringsOver(alphabet, maxlen) == UNION {[1..k -> alphabet] : k \in 0..maxlen}

Run(c, k) == [j \in 1..k |-> c]

Inputs(N) ==
    StringsOver(Chars, MaxLen)
    \cup {Run(c, k) \o t : c \in RunChars, k \in 0..(NCHARS(N) + MaxExtra), t \in Tails}

\* Values of 6-bit and of 15-bit units in the raw values handed to the decoder.
UnitVals(u) == IF u = 6 THEN {1, 32, 63} ELSE {1, 127, 128, 20992, 32767}

\* The N-bit value with tag t, then k units of u bits each holding x, then
\* the bit fill in every remaining position.
RawValue(N, t, u, k, x, fill) ==
    [j \in 1..N |->
        IF j <= NTAGBITS(N) THEN BitOf(t, NTAGBITS(N) - j)
        ELSE LET q == j - NTAGBITS(N) - 1
             IN  IF q \div u < k THEN BitOf(x, u - 1 - (q % u)) ELSE fill]

\* Values handed to decode_sixbit directly: every value of a u8, and for the
\* wider types every tag with a patterned coding region.
RawValues(N) ==
    IF N = 8 THEN [1..N -> {0, 1}]
    ELSE UNION {{RawValue(N, t, u, k, x, fill) :
                    t \in 0..(Pow2(NTAGBITS(N)) - 1),
                    k \in 0..(NCHARBITS(N) \div u), x \in UnitVals(u),
                    fill \in {0, 1}} : u \in {6, 15}}

\* ------------------------------------------------------------------------
\* State
\* ------------------------------------------------------------------------

VARIABLES
    n,        \* the packed type N, by its number of bits
    bsPick,   \* which match binary_search returns among equal entries
    sa,       \* the string handed to encode (the first one of a pair)
    sb,       \* the second string of a pair
    ra,       \* what encode returned for sa
    rb,       \* what encode returned for sb
    v,        \* the value decode_sixbit is called on
    tag,      \* DecodeSixbitIter.tag
    tmp,      \* DecodeSixbitIter.tmp
    out,      \* the characters next() has returned so far
    ret,      \* what the last call of next() returned
    nones,    \* how many calls of next() have returned None
    pc        \* "input", "error", "value", "iter" or "panic"

vars == <<n, bsPick, sa, sb, ra, rb, v, tag, tmp, out, ret, nones, pc>>

\* No call of encode has returned yet.
NoResult == [kind |-> "", val |-> <<>>, arg |-> 0]

\* The part of the state no call has touched yet.
Fresh ==
    /\ ra = NoResult /\ rb = NoResult
    /\ tag = 0 /\ tmp = <<>> /\ out = <<>> /\ ret = "" /\ nones = 0

\* One string to encode and then decode (tests::round_trip, lib.rs 654-664).
Init ==
    /\ n \in Widths
    /\ bsPick \in BsPicks
    /\ sa \in Inputs(n)
    /\ sb = <<>>
    /\ v = <<>>
    /\ Fresh
    /\ pc = "input"

\* Two strings to encode and compare (tests::check_order, lib.rs 701-704).
InitOrder ==
    /\ n \in Widths
    /\ bsPick \in BsPicks
    /\ sa \in StringsOver(PairChars, MaxPairLen)
    /\ sb \in StringsOver(PairChars, MaxPairLen)
    /\ v = <<>>
    /\ Fresh
    /\ pc = "input"

\* A value to decode that need not come from encode.
InitDecode ==
    /\ n \in Widths
    /\ bsPick \in BsPicks
    /\ sa = <<>> /\ sb = <<>>
    /\ v \in RawValues(n)
    /\ Fresh
    /\ pc = "value"

\* s.chars().encode_sixbit::<N>()  (lib.rs 655, 557-559)
Encode ==
    /\ pc = "input"
    /\ ra' = encode(sa, n, bsPick)
    /\ v' = ra'.val
    /\ pc' = IF ra'.kind = "Ok" THEN "value" ELSE "error"
    /\ UNCHANGED <<n, bsPick, sa, sb, rb, tag, tmp, out, ret, nones>>

\* The two encode_sixbit calls of check_order (lib.rs 703).
CheckOrder ==
    /\ pc = "input"
    /\ ra' = encode(sa, n, bsPick)
    /\ rb' = encode(sb, n, bsPick)
    /\ pc' = "compared"
    /\ UNCHANGED <<n, bsPick, sa, sb, v, tag, tmp, out, ret, nones>>

\* enc.decode_sixbit()  (lib.rs 657, 608-620)
DecodeSixbit ==
    /\ pc = "value"
    /\ LET it == decode_sixbit(v, n)
       IN  tag' = it.tag /\ tmp' = it.tmp
    /\ pc' = "iter"
    /\ UNCHANGED <<n, bsPick, sa, sb, ra, rb, v, out, ret, nones>>

\* One call of next() (lib.rs 572-596), in a build with or without
\* overflow checks.
IterNext ==
    /\ pc = "iter"
    /\ nones < MaxNones
    /\ \E overflow_checks \in BOOLEAN :
         LET r == next(tag, tmp, n, overflow_checks)
         IN  /\ tmp' = r.tmp
             /\ ret' = r.ret
             /\ out' = IF r.ret = "Some" THEN Append(out, r.ch) ELSE out
             /\ nones' = IF r.ret = "None" THEN nones + 1 ELSE nones
             /\ pc' = IF r.ret = "panic" THEN "panic" ELSE "iter"
    /\ UNCHANGED <<n, bsPick, sa, sb, ra, rb, v, tag>>

Next == Encode \/ DecodeSixbit \/ IterNext

NextOrder == CheckOrder

NextDecode == DecodeSixbit \/ IterNext

Spec == Init /\ [][Next]_vars

SpecOrder == InitOrder /\ [][NextOrder]_vars

SpecDecode == InitDecode /\ [][NextDecode]_vars

\* ------------------------------------------------------------------------
\* Properties
\* ------------------------------------------------------------------------

\* encode has returned for sa.
Encoded == pc \in {"value", "error", "iter", "panic"}

\* The number held by the len bits of x that start at bit from (bit 1 the
\* most significant).
RECURSIVE Field(_, _, _)
Field(x, from, len) ==
    IF len = 0 THEN 0 ELSE 2 * Field(x, from, len - 1) + x[from + len - 1]

\* c is one of the 64 entries of the page with tag p.
InPage(c, p) == \E i \in 0..63 : PageAt(p, i) = c

\* c is a character of the page with tag p: an entry that is neither the
\* terminator U+0000 nor the filler U+FFFF.
CharOfPage(c, p) == InPage(c, p) /\ c # 0 /\ c # 65535

\* c lies in the block U+4E00..U+9FFF.
InBlock(c) == c >= 19968 /\ c <= 40959

\* The page of a non-empty string: 12 for the block U+4E00..U+9FFF, else the
\* first page in PAGES order that holds its first character, else None.
PageOf(s) ==
    IF InBlock(s[1]) THEN 12
    ELSE IF \E p \in 0..15 : InPage(s[1], p)
         THEN CHOOSE p \in 0..15 : InPage(s[1], p) /\ \A q \in 0..(p - 1) : ~InPage(s[1], q)
         ELSE None

\* a < b in code-point lexicographic order.
LexLess(a, b) ==
    \E k \in 1..(Len(a) + 1) :
        /\ k <= Len(b)
        /\ \A h \in 1..(k - 1) : a[h] = b[h]
        /\ (k = Len(a) + 1 \/ a[k] < b[k])

\* char_slots of the bit assignment table (lib.rs 156-164).
CharSlots(N) ==
    CASE N = 8 -> 1 [] N = 16 -> 2 [] N = 32 -> 5 [] N = 64 -> 10 [] N = 128 -> 21

\* special_slots of the bit assignment table (lib.rs 156-164).
SpecialSlots(N) ==
    CASE N = 8 -> 0 [] N = 16 -> 0 [] N = 32 -> 2 [] N = 64 -> 4 [] N = 128 -> 8

\* Tag bits of the bit assignment table (lib.rs 156-164).
TagBits(N) == IF N \in {16, 64} THEN 4 ELSE 2

\* C1: whenever encode(s, N) returned Ok(v), the characters the decoder
\* started on v has returned when next() first returns None are exactly s.
C1_RoundTrip ==
    (pc = "iter" /\ ret = "None") => out = sa

\* C2: two strings of the same page (or the first one empty) that both
\* encode at N and satisfy a < b have encode(a, N) < encode(b, N).
C2_OrderWithinPage ==
    (/\ pc = "compared"
     /\ ra.kind = "Ok" /\ rb.kind = "Ok"
     /\ LexLess(sa, sb)
     /\ (sa = <<>> \/ PageOf(sa) = PageOf(sb)))
    => Less(ra.val, rb.val)

\* C3: two non-empty strings that both encode at N, the page of the first
\* one preceding the page of the second one in PAGES order, have
\* encode(a, N) < encode(b, N).
C3_OrderAcrossPages ==
    (/\ pc = "compared"
     /\ ra.kind = "Ok" /\ rb.kind = "Ok"
     /\ sa # <<>> /\ sb # <<>>
     /\ PageOf(sa) < PageOf(sb))
    => Less(ra.val, rb.val)

\* C3 witness: at 32 bits a two-character string of the Arabic page and a
\* one-character string of the block U+4E00..U+9FFF have both been encoded.
C3_Witness ==
    /\ pc = "compared" /\ n = 32
    /\ ra.kind = "Ok" /\ rb.kind = "Ok"
    /\ Len(sa) = 2 /\ Len(sb) = 1
    /\ PageOf(sa) = 4 /\ PageOf(sb) = 12

\* C4: two distinct strings that both encode at N have different values.
C4_Injective ==
    (pc = "compared" /\ ra.kind = "Ok" /\ rb.kind = "Ok" /\ sa # sb)
    => ra.val # rb.val

\* Every character of s is a character of the page with tag p.
AllOfPage(s, p) == \A k \in 1..Len(s) : CharOfPage(s[k], p)

\* Every character of s lies in the block U+4E00..U+9FFF.
AllInBlock(s) == \A k \in 1..Len(s) : InBlock(s[k])

\* The capacity law for the pages in the set pages: a string of characters
\* of one of them encodes when it has CharSlots(N) characters and is TooLong
\* when it has one more; likewise with SpecialSlots(N) for the block
\* U+4E00..U+9FFF at 32, 64 and 128 bits.
CapacityLaw(pages) ==
    Encoded =>
        /\ \A p \in pages :
             AllOfPage(sa, p) =>
                /\ Len(sa) = CharSlots(n) => ra.kind = "Ok"
                /\ Len(sa) = CharSlots(n) + 1 => ra = TooLong
        /\ (n \in {32, 64, 128} /\ AllInBlock(sa)) =>
                /\ Len(sa) = SpecialSlots(n) => ra.kind = "Ok"
                /\ Len(sa) = SpecialSlots(n) + 1 => ra = TooLong

\* C5 as stated: the capacity law holds for every page at every width.
C5_CapacityEveryPage == CapacityLaw(0..15)

\* C5 amended: the capacity law holds for the pages the width can select:
\* every page with 4 tag bits, the pages 0, 4, 8 and 12 with 2 tag bits.
C5_Capacity == CapacityLaw({p \in 0..15 : TagBits(n) = 4 \/ p % 4 = 0})

\* C5 witness: at 128 bits a string of 22 characters of the Arabic page has
\* been refused as TooLong.
C5_Witness ==
    /\ Encoded /\ n = 128
    /\ Len(sa) = 22 /\ AllOfPage(sa, 4)
    /\ ra = TooLong

\* C6: encode of the empty string returns Ok(0), and the decoder started on
\* the value 0 returns None on its first call and has returned no character.
C6_EmptyString ==
    /\ (Encoded /\ sa = <<>>) => (ra.kind = "Ok" /\ \A j \in 1..n : ra.val[j] = 0)
    /\ (pc = "iter" /\ (\A j \in 1..n : v[j] = 0) /\ ret # "")
            => (ret = "None" /\ out = <<>>)

\* C6 witness: the decoder started on the encoding of the empty string has
\* been asked for a character.
C6_Witness ==
    pc = "iter" /\ sa = <<>> /\ ret # ""

\* C7: no call of next() aborts, whatever value the decoder was started on.
C7_DecodeNeverFails ==
    pc # "panic"

\* C8: the decoder returns at most CharSlots(N) characters when its tag is
\* not the tag of the block U+4E00..U+9FFF and at most SpecialSlots(N) when
\* it is.
C8_DecodeLengthBound ==
    pc \in {"iter", "panic"} =>
        Len(out) <= (IF tag = 12 THEN SpecialSlots(n) ELSE CharSlots(n))

\* C9: an Ok value for a string of k >= 1 characters encoded through page p
\* holds the tag in its top TagBits(N) bits, then the k 6-bit indices of the
\* characters in PAGES[p] in order, then only zero bits.
C9_WireFormat ==
    (Encoded /\ ra.kind = "Ok" /\ sa # <<>> /\ ~InBlock(sa[1])) =>
        LET p == PageOf(sa)
            T == TagBits(n)
            k == Len(sa)
        IN  /\ Field(ra.val, 1, T) = (IF T = 4 THEN p ELSE p \div 4)
            /\ \A i \in 1..k :
                 PageAt(p, Field(ra.val, T + 6 * (i - 1) + 1, 6)) = sa[i]
            /\ \A j \in (T + 6 * k + 1)..n : ra.val[j] = 0
            /\ n - (T + 6 * k) = 6 * (CharSlots(n) - k)

\* C9 witness: at 32 bits a string of 2 to 4 characters of the Arabic page
\* has been encoded.
C9_Witness ==
    /\ Encoded /\ ra.kind = "Ok" /\ n = 32
    /\ Len(sa) \in 2..4 /\ PageOf(sa) = 4

\* C10: a non-empty string whose first character is on none of the 16 pages
\* and outside the block U+4E00..U+9FFF gets Err(NoCodePageFor(first)).
C10_NoCodePageFor ==
    (/\ Encoded /\ sa # <<>>
     /\ ~InBlock(sa[1])
     /\ \A p \in 0..15 : ~InPage(sa[1], p))
    => ra = NoCodePageFor(sa[1])

\* C10 witness: a string longer than NCHARS(N) whose first character is on
\* no page has been refused with NoCodePageFor.
C10_Witness ==
    /\ Encoded /\ Len(sa) > CharSlots(n)
    /\ ra.kind = "NoCodePageFor"

\* C11: with 2 tag bits a non-empty string whose first character lies on
\* page 1, 2, 3, 11 or 15 gets Err(PageUnavailable(that page)), whatever
\* follows; with 4 tag bits encode never returns PageUnavailable.
C11_PageUnavailable ==
    Encoded =>
        /\ (/\ TagBits(n) = 2 /\ sa # <<>>
            /\ PageOf(sa) \in {1, 2, 3, 11, 15})
           => ra = PageUnavailable(PageOf(sa))
        /\ TagBits(n) = 4 => ra.kind # "PageUnavailable"

\* C11 witness: at 128 bits a string longer than 21 characters that starts
\* on the Hangul page has been refused with PageUnavailable(11).
C11_Witness ==
    /\ Encoded /\ n = 128 /\ Len(sa) > 21
    /\ ra = PageUnavailable(11)

\* The first character of s selects the block U+4E00..U+9FFF at width N.
SelectsBlock(s, N) == s # <<>> /\ InBlock(s[1]) /\ SpecialSlots(N) > 0

\* The first character of s, which lies on page p, selects p at width N:
\* p is a page that the tag bits of N can name.
SelectsPage(s, p, N) ==
    /\ s # <<>> /\ ~InBlock(s[1])
    /\ p # None
    /\ (TagBits(N) = 4 \/ p % 4 = 0)

\* c is in what the first character of s selected, p being its page.
InSelected(s, p, c) == IF InBlock(s[1]) THEN InBlock(c) ELSE InPage(c, p)

\* The capacity of what the first character of s selected at width N.
SelectedCapacity(s, N) == IF InBlock(s[1]) THEN SpecialSlots(N) ELSE CharSlots(N)

\* C12: once the first character has selected a page or the block, the
\* earliest offence decides: MissingFromPage(c) for the first character c
\* outside the selection at a position within the capacity, TooLong for a
\* longer string whose characters within the capacity are all in the
\* selection; and a string with characters inside and outside the block
\* U+4E00..U+9FFF is never Ok.
C12_ErrorPrecedence ==
    Encoded =>
        /\ sa # <<>> =>
             LET p == PageOf(sa)
                 cap == SelectedCapacity(sa, n)
                 good == {j \in 1..Len(sa) : InSelected(sa, p, sa[j])}
             IN  (SelectsBlock(sa, n) \/ SelectsPage(sa, p, n)) =>
                    /\ \A j \in 1..Len(sa) :
                         (j <= cap /\ j \notin good /\ \A h \in 1..(j - 1) : h \in good)
                         => ra = MissingFromPage(sa[j])
                    /\ (Len(sa) > cap /\ \A j \in 1..cap : j \in good)
                       => ra = TooLong
        /\ (/\ \E j \in 1..Len(sa) : InBlock(sa[j])
            /\ \E j \in 1..Len(sa) : ~InBlock(sa[j]))
           => ra.kind # "Ok"

\* C12 witness: at 64 bits ten Greek letters followed by '@', which is not
\* on the Greek page, have been refused as TooLong.
C12_Witness ==
    /\ Encoded /\ n = 64 /\ Len(sa) = 11
    /\ sa[1] = 945 /\ sa[10] = 945 /\ sa[11] = 64
    /\ ra = TooLong

\* C13: a call of next() with the tag of the block U+4E00..U+9FFF, on a
\* type of at least 15 bits, returns None exactly when the top 15 bits of
\* tmp are zero; otherwise it returns the scalar 0x4E00 + unit - 1, unit
\* being those 15 bits, and leaves tmp shifted left by 15 bits.
C13_SpecialStep ==
    [][(pc = "iter" /\ tag = 12 /\ n >= 15) =>
         LET unit == Field(tmp, 1, 15)
         IN  /\ (ret' = "None") <=> (unit = 0)
             /\ unit # 0 =>
                  /\ out' = Append(out, 19968 + unit - 1)
                  /\ tmp' = Shl(tmp, 15, n)]_vars

\* C14: at 8 and 16 bits a string whose first character lies in the block
\* U+4E00..U+9FFF gets Err(NoCodePageFor(first)).
C14_BlockWithoutSlot ==
    (Encoded /\ n \in {8, 16} /\ sa # <<>> /\ InBlock(sa[1]))
    => ra = NoCodePageFor(sa[1])

\* The page with tag p is wholly the reserved page.
IsReserved(p) == \A i \in 0..63 : PageAt(p, i) = 65535

\* C15: the table the decoder has read an entry of satisfies: (1) every
\* page has U+0000 at index 0 or is wholly U+FFFF; (2) in every page the
\* entries after index 0 are never U+0000 and each one is below the next one
\* unless the next one is U+FFFF, so the entries that are neither U+0000 nor
\* U+FFFF ascend strictly and only U+FFFF follows them; (3) the entries at
\* index 1 of the pages that are not reserved ascend strictly in table
\* order, and U+4E00 lies between those of the pages 11 and 15.
C15_RegistryInvariants ==
    (pc = "iter" /\ ret = "Some") =>
        LET real == {p \in 0..15 : ~IsReserved(p)}
        IN  /\ \A p \in 0..15 : PageAt(p, 0) = 0 \/ p \notin real
            /\ \A p \in 0..15 : \A i \in 1..63 : PageAt(p, i) # 0
            /\ \A p \in 0..15 : \A i \in 0..62 :
                    PageAt(p, i) < PageAt(p, i + 1) \/ PageAt(p, i + 1) = 65535
            /\ \A p \in real : \A q \in real : p < q => PageAt(p, 1) < PageAt(q, 1)
            /\ 11 \in real /\ 15 \in real
            /\ PageAt(11, 1) < 19968 /\ 19968 < PageAt(15, 1)

\* C15 witness: the decoder has returned the U+FFFF filler of the Hebrew
\* page, read at index 63.
C15_Witness ==
    /\ pc = "iter" /\ ret = "Some" /\ tag = 3
    /\ out # <<>> /\ out[Len(out)] = 65535

\* C16: a call of next() never changes tag; a call that returns None
\* leaves tmp (and the characters returned so far) unchanged; after a call
\* has returned None every later call returns None; a call that returns a
\* character leaves tmp shifted left by 15 bits with the tag of the block
\* U+4E00..U+9FFF and by 6 bits otherwise.
C16_Fused ==
    [][pc = "iter" =>
         /\ tag' = tag
         /\ ret' = "None" => (tmp' = tmp /\ out' = out)
         /\ ret = "None" => ret' = "None"
         /\ ret' = "Some" =>
              /\ tmp' = Shl(tmp, IF tag = 12 THEN 15 ELSE 6, n)
              /\ Len(out') = Len(out) + 1]_vars

\* C16 witness: a decoder with the tag of the block U+4E00..U+9FFF has
\* returned two characters and then None twice.
C16_Witness ==
    pc = "iter" /\ tag = 12 /\ Len(out) = 2 /\ nones = 2 /\ ret = "None"

\* C17: encode never returns Ok for a string that holds U+0000 or U+FFFF
\* at any position.
C17_TerminatorAndSentinel ==
    (Encoded /\ \E k \in 1..Len(sa) : sa[k] \in {0, 65535})
    => ra.kind # "Ok"

====
